---- MODULE Spec2Model ----
(***************************************************************************)
(* A model of tensorpandas: TensorArray (a pandas extension array backed   *)
(* by one numpy buffer), ArrowTensorType (its pyarrow extension type), the *)
(* arrow encode/decode pair, and the patched ExtensionBlock.where.         *)
(*                                                                         *)
(* An ndarray is a record [shape, dtype, data]: data is the row-major flat *)
(* sequence of items and an item is the tuple of the bytes numpy stores    *)
(* for it (little endian), so that tobytes/frombuffer are what they are in *)
(* numpy: a copy and a reinterpretation of bytes under a dtype.            *)
(* Python indices are 0-based; sequences here are 1-based.                 *)
(***************************************************************************)
EXTENDS Integers, Sequences, FiniteSets, TLC

VARIABLES
    heap,   \* the numpy buffers that exist: heap[b] is the ndarray in buffer b
    arrs,   \* the TensorArray objects: arrs[i] is the buffer i's _ndarray names
    made,   \* history: how arrs[i] was obtained (operation, source object)
    wire,   \* the pyarrow extension array / metadata blob in flight
    out     \* the last call: its operation, arguments, result and exception

vars == <<heap, arrs, made, wire, out>>

\* ------------------------------------------------------------------ bounds

MaxRows == 2      \* rows of an array
MaxDim == 2       \* extent of an element dimension
MaxTypeDim == 4   \* extent of a dimension of an ArrowTensorType's shape
MaxArrays == 2    \* TensorArray objects alive in the lifecycle specification

\* ------------------------------------------------------------------ exceptions

NoErr == [cls |-> "", msg |-> ""]
Err(c, m) == [cls |-> c, msg |-> m]

IncompatibleData == Err("ValueError", "Incompatible data found at TensorArray initialization")
NotTwoD == Err("ValueError", "Tensor data be at least 2D, including column dimension.")

\* ------------------------------------------------------------------ numpy items

Dtypes == {"float32", "float64", "int32"}
FloatDtypes == {"float32", "float64"}

itemsize(dt) == IF dt = "float64" THEN 8 ELSE 4

\* the bytes of the number n (0, 1 or 2) in dtype dt
num(dt, n) ==
    CASE dt = "float32" ->
           (CASE n = 0 -> <<0, 0, 0, 0>> [] n = 1 -> <<0, 0, 128, 63>> [] OTHER -> <<0, 0, 0, 64>>)
      [] dt = "float64" ->
           (CASE n = 0 -> <<0, 0, 0, 0, 0, 0, 0, 0>>
              [] n = 1 -> <<0, 0, 0, 0, 0, 0, 240, 63>>
              [] OTHER -> <<0, 0, 0, 0, 0, 0, 0, 64>>)
      [] OTHER -> <<n % 256, (n \div 256) % 256, (n \div 65536) % 256, (n \div 16777216) % 256>>

\* the bytes of np.nan in a float dtype
nan(dt) == IF dt = "float32" THEN <<0, 0, 192, 127>> ELSE <<0, 0, 0, 0, 0, 0, 248, 127>>

\* np.isnan on one item: exponent all ones and a mantissa that is not zero
np_isnan(dt, item) ==
    CASE dt = "float32" ->
           /\ item[4] % 128 = 127
           /\ item[3] >= 128
           /\ (item[3] % 128 # 0 \/ item[2] # 0 \/ item[1] # 0)
      [] dt = "float64" ->
           /\ item[8] % 128 = 127
           /\ item[7] \div 16 = 15
           /\ (item[7] % 16 # 0 \/ \E j \in 1..6 : item[j] # 0)
      [] OTHER -> FALSE

\* ndarray.astype on one item, for the casts the model meets (int32 -> float64)
astype(item, from, to) ==
    IF from = to THEN item
    ELSE IF from = "int32" /\ to = "float64" THEN num("float64", item[1])
    ELSE IF np_isnan(from, item) THEN nan(to)
    ELSE num(to, CHOOSE n \in 0..2 : num(from, n) = item)

\* ------------------------------------------------------------------ numpy arrays

RECURSIVE Prod(_)
Prod(s) == IF s = <<>> THEN 1 ELSE Head(s) * Prod(Tail(s))

RECURSIVE Flatten(_)
Flatten(ss) == IF ss = <<>> THEN <<>> ELSE Head(ss) \o Flatten(Tail(ss))

NoArr == [shape |-> <<>>, dtype |-> "", data |-> <<>>]

ndim(a) == Len(a.shape)

\* a[i] for an int i (0-based): the i-th sub-array along the first axis
Row(a, i) ==
    LET rs == Prod(Tail(a.shape))
    IN  [shape |-> Tail(a.shape), dtype |-> a.dtype,
         data |-> SubSeq(a.data, i * rs + 1, (i + 1) * rs)]

\* iterating an ndarray: its rows in order
iter(a) == [i \in 1..a.shape[1] |-> Row(a, i - 1)]

\* a variant that takes the shape of the first array for the shape of all
np_stack_unchecked(items) ==
    IF Len(items) = 0
    THEN [err |-> Err("ValueError", "need at least one array to stack"), arr |-> NoArr]
    ELSE [err |-> NoErr,
          arr |-> [shape |-> <<Len(items)>> \o items[1].shape,
                   dtype |-> items[1].dtype,
                   data |-> Flatten([i \in 1..Len(items) |-> items[i].data])]]

\* np.stack: a new array with a new leading axis; ValueError for no arrays
\* or arrays of different shapes
np_stack(items) ==
    IF Len(items) = 0
    THEN [err |-> Err("ValueError", "need at least one array to stack"), arr |-> NoArr]
    ELSE IF \E i \in 1..Len(items) : items[i].shape # items[1].shape
    THEN [err |-> Err("ValueError", "all input arrays must have the same shape"),
          arr |-> NoArr]
    ELSE [err |-> NoErr,
          arr |-> [shape |-> <<Len(items)>> \o items[1].shape,
                   dtype |-> items[1].dtype,
                   data |-> Flatten([i \in 1..Len(items) |-> items[i].data])]]

\* ------------------------------------------------------------------ TensorArray

\* The argument of TensorArray(data): another TensorArray, an ndarray, or a
\* list of sub-arrays (a Python number is a 0-d sub-array).
FromTA(a) == [kind |-> "TensorArray", arr |-> a, items |-> <<>>]
FromND(a) == [kind |-> "ndarray", arr |-> a, items |-> <<>>]
FromList(s) == [kind |-> "list", arr |-> NoArr, items |-> s]

tensor_ndim_lax(nd) == ndim(nd) + 1

tensor_ndim(nd) == ndim(nd)

\* TensorArray.__init__: the buffer the new object holds (nd), whether it
\* is the very buffer of the argument (shared) or a new one, and the
\* exception raised
TensorArray_init(data) ==
    LET s == IF data.kind = "TensorArray" THEN [err |-> NoErr, arr |-> data.arr]
             ELSE np_stack(IF data.kind = "ndarray" THEN iter(data.arr) ELSE data.items)
        r == IF data.kind = "TensorArray"
             THEN [err |-> NoErr, nd |-> data.arr, shared |-> TRUE]
             ELSE IF s.err = NoErr
             THEN [err |-> NoErr, nd |-> s.arr, shared |-> FALSE]
             ELSE IF data.kind = "ndarray"
             THEN [err |-> NoErr, nd |-> data.arr, shared |-> TRUE]
             ELSE [err |-> IncompatibleData, nd |-> NoArr, shared |-> FALSE]
    IN  IF r.err # NoErr THEN r
        ELSE IF tensor_ndim(r.nd) < 2
        THEN [err |-> NotTwoD, nd |-> NoArr, shared |-> FALSE]
        ELSE r

\* TensorArray.__len__
TensorArray_len(nd) == nd.shape[1]

\* ------------------------------------------------------------------ numpy indexing

\* the index of a buffer: an int, a slice lo:hi (step 1) or a boolean mask
KeyInt(i) == [kind |-> "int", i |-> i, lo |-> 0, hi |-> 0, mask |-> <<>>]
KeySlice(lo, hi) == [kind |-> "slice", i |-> 0, lo |-> lo, hi |-> hi, mask |-> <<>>]
KeyMask(m) == [kind |-> "mask", i |-> 0, lo |-> 0, hi |-> 0, mask |-> m]

Min(x, y) == IF x < y THEN x ELSE y
Max(x, y) == IF x > y THEN x ELSE y

\* slice.indices(n) for a step of 1: negative bounds count from the end,
\* both are clipped to 0..n
SliceBound(b, n) == IF b < 0 THEN Max(b + n, 0) ELSE Min(b, n)

\* numpy's check of an index against an axis of n rows
key_err(key, n) ==
    CASE key.kind = "int" ->
           IF key.i < -n \/ key.i >= n
           THEN Err("IndexError", "index out of bounds") ELSE NoErr
      [] key.kind = "mask" ->
           IF Len(key.mask) # n
           THEN Err("IndexError", "boolean index did not match indexed array")
           ELSE NoErr
      [] OTHER -> NoErr

\* the rows (0-based, in order) an index selects
key_rows(key, n) ==
    CASE key.kind = "int" -> <<key.i % n>>
      [] key.kind = "slice" ->
           LET lo == SliceBound(key.lo, n)
               hi == SliceBound(key.hi, n)
           IN  [p \in 1..Max(hi - lo, 0) |-> lo + p - 1]
      [] OTHER -> SelectSeq([p \in 1..n |-> p - 1], LAMBDA r : key.mask[r + 1])

\* the rows r0, r1, ... of a gathered into one array
Gather(a, rows) ==
    [shape |-> <<Len(rows)>> \o Tail(a.shape), dtype |-> a.dtype,
     data |-> Flatten([p \in 1..Len(rows) |-> Row(a, rows[p]).data])]

\* ndarray.__getitem__: an int gives the sub-array, a slice or a mask the
\* selected rows
ndarray_getitem(a, key) ==
    LET n == a.shape[1]
        e == key_err(key, n)
    IN  IF e # NoErr THEN [err |-> e, arr |-> NoArr]
        ELSE IF key.kind = "int" THEN [err |-> NoErr, arr |-> Row(a, key.i % n)]
        ELSE [err |-> NoErr, arr |-> Gather(a, key_rows(key, n))]

\* numpy broadcasting of a value of shape vs to the shape ts: the shapes
\* are aligned at the right and every extent of vs is that of ts or 1
Broadcastable(vs, ts) ==
    /\ Len(vs) <= Len(ts)
    /\ \A j \in 1..Len(vs) : vs[j] = 1 \/ vs[j] = ts[j + Len(ts) - Len(vs)]

RECURSIVE Ravel(_, _)
Ravel(mi, shape) ==
    IF mi = <<>> THEN 0 ELSE Head(mi) * Prod(Tail(shape)) + Ravel(Tail(mi), Tail(shape))

Unravel(k, shape) ==
    [j \in 1..Len(shape) |-> (k \div Prod(SubSeq(shape, j + 1, Len(shape)))) % shape[j]]

\* the item of v that broadcasting to shape ts puts at flat position k (0-based)
BGet(v, ts, k) ==
    LET m == Unravel(k, ts)
        off == Len(ts) - Len(v.shape)
        vi == [j \in 1..Len(v.shape) |-> IF v.shape[j] = 1 THEN 0 ELSE m[j + off]]
    IN  v.data[Ravel(vi, v.shape) + 1]

Position(rows, r) == CHOOSE p \in 1..Len(rows) : rows[p] = r

\* a variant that assigns row by row and meets the shape mismatch only
\* when it runs out of value rows
ndarray_setitem_rowwise(a, key, value) ==
    LET n == a.shape[1]
        e == key_err(key, n)
        rows == key_rows(key, n)
        rs == Prod(Tail(a.shape))
        ts == IF key.kind = "int" THEN Tail(a.shape)
              ELSE <<Len(rows)>> \o Tail(a.shape)
        ok == Broadcastable(value.shape, ts)
        rowv == IF Len(value.shape) = Len(a.shape)
                THEN value
                ELSE [value EXCEPT !.shape = <<1>> \o value.shape]
        can(p) == /\ Tail(rowv.shape) = Tail(a.shape)
                  /\ (p <= rowv.shape[1] \/ rowv.shape[1] = 1)
        src(p) == IF rowv.shape[1] = 1 THEN 0 ELSE p - 1
    IN  IF e # NoErr THEN [err |-> e, arr |-> a]
        ELSE [err |-> IF ok THEN NoErr
                      ELSE Err("ValueError", "could not broadcast input array"),
              arr |-> [a EXCEPT !.data =
                  [k \in 1..Len(a.data) |->
                      LET r == (k - 1) \div rs
                          c == (k - 1) % rs
                      IN  IF (\E p \in 1..Len(rows) : rows[p] = r) /\ can(Position(rows, r))
                          THEN astype(Row(rowv, src(Position(rows, r))).data[c + 1],
                                      value.dtype, a.dtype)
                          ELSE a.data[k]]]]

\* ndarray.__setitem__: a[key] = value. The index and the broadcast of the
\* value to the selected shape are checked before anything is written.
ndarray_setitem(a, key, value) ==
    LET n == a.shape[1]
        e == key_err(key, n)
        rows == key_rows(key, n)
        rs == Prod(Tail(a.shape))
        ts == IF key.kind = "int" THEN Tail(a.shape)
              ELSE <<Len(rows)>> \o Tail(a.shape)
    IN  IF e # NoErr THEN [err |-> e, arr |-> a]
        ELSE IF ~Broadcastable(value.shape, ts)
        THEN [err |-> Err("ValueError", "could not broadcast input array"), arr |-> a]
        ELSE [err |-> NoErr,
              arr |-> [a EXCEPT !.data =
                  [k \in 1..Len(a.data) |->
                      LET r == (k - 1) \div rs
                          c == (k - 1) % rs
                          q == IF key.kind = "int" THEN 0 ELSE Position(rows, r) - 1
                      IN  IF \E p \in 1..Len(rows) : rows[p] = r
                          THEN astype(BGet(value, ts, q * rs + c), value.dtype, a.dtype)
                          ELSE a.data[k]]]]

\* np.concatenate along axis 0
np_concatenate(as) ==
    IF Len(as) = 0
    THEN [err |-> Err("ValueError", "need at least one array to concatenate"),
          arr |-> NoArr]
    ELSE IF \E i \in 1..Len(as) : Tail(as[i].shape) # Tail(as[1].shape)
    THEN [err |-> Err("ValueError", "all the input array dimensions must match"),
          arr |-> NoArr]
    ELSE [err |-> NoErr,
          arr |-> [shape |-> <<Len(Flatten([i \in 1..Len(as) |-> iter(as[i])]))>>
                             \o Tail(as[1].shape),
                   dtype |-> as[1].dtype,
                   data |-> Flatten([i \in 1..Len(as) |-> as[i].data])]]

\* ------------------------------------------------------------------ pandas take

\* the fill_value argument: None, a Python number, or a tensor (an ndarray)
FillNone == [kind |-> "None", v |-> 0, arr |-> NoArr]
FillScalar(n) == [kind |-> "scalar", v |-> n, arr |-> NoArr]
FillTensor(t) == [kind |-> "tensor", v |-> 0, arr |-> t]

\* pandas.core.dtypes.cast.maybe_promote: the dtype that holds both the
\* array's items and the fill value, and the fill value as an item of it
maybe_promote(dt, fill) ==
    CASE fill.kind = "tensor" ->
           [err |-> Err("ValueError", "fill_value must be a scalar"),
            dtype |-> dt, item |-> <<>>]
      [] fill.kind = "None" ->
           IF dt \in FloatDtypes
           THEN [err |-> NoErr, dtype |-> dt, item |-> nan(dt)]
           ELSE [err |-> NoErr, dtype |-> "float64", item |-> nan("float64")]
      [] OTHER -> [err |-> NoErr, dtype |-> dt, item |-> num(dt, fill.v)]

\* pandas.core.algorithms.take on the buffer, along axis 0
pd_take(a, indices, fill, allow_fill) ==
    LET n == a.shape[1]
        rs == Prod(Tail(a.shape))
        I == 1..Len(indices)
    IN  IF allow_fill
        THEN \* validate_indices, then take_nd
             IF \E p \in I : indices[p] < -1
             THEN [err |-> Err("ValueError", "'indices' contains values less than allowed"),
                   arr |-> NoArr]
             ELSE IF \E p \in I : indices[p] >= n
             THEN [err |-> Err("IndexError", "indices are out-of-bounds"), arr |-> NoArr]
             ELSE LET mp == maybe_promote(a.dtype, fill)
                      needs == \E p \in I : indices[p] = -1
                      dt == IF mp.dtype # a.dtype /\ ~needs THEN a.dtype ELSE mp.dtype
                  IN  IF mp.err # NoErr THEN [err |-> mp.err, arr |-> NoArr]
                      ELSE [err |-> NoErr,
                            arr |-> [shape |-> <<Len(indices)>> \o Tail(a.shape),
                                     dtype |-> dt,
                                     data |-> Flatten([p \in I |->
                                         IF indices[p] = -1
                                         THEN [c \in 1..rs |-> mp.item]
                                         ELSE [c \in 1..rs |->
                                                 astype(Row(a, indices[p]).data[c],
                                                        a.dtype, dt)]])]]
        ELSE \* ndarray.take, mode='raise'
             IF \E p \in I : indices[p] < -n \/ indices[p] >= n
             THEN [err |-> Err("IndexError", "index is out of bounds for axis 0"),
                   arr |-> NoArr]
             ELSE [err |-> NoErr, arr |-> Gather(a, [p \in I |-> indices[p] % n])]

\* ------------------------------------------------------------------ TensorArray methods
\* Each gives [err, nd, shared]: the exception, the buffer of the returned
\* TensorArray, and whether that buffer is the one handed to __init__.

Fail(e) == [err |-> e, nd |-> NoArr, shared |-> FALSE]

\* TensorArray.__getitem__ for a slice or a mask (an int gives a bare ndarray)
TensorArray_getitem(nd, key) ==
    LET result == ndarray_getitem(nd, key)
    IN  IF result.err # NoErr THEN Fail(result.err)
        ELSE IF ndim(result.arr) < tensor_ndim(nd)
        THEN [err |-> NoErr, nd |-> result.arr, shared |-> FALSE]
        ELSE TensorArray_init(FromND(result.arr))

\* TensorArray.take
TensorArray_take(nd, indices, allow_fill, fill_value) ==
    LET result == pd_take(nd, indices, fill_value, allow_fill)
    IN  IF result.err # NoErr THEN Fail(result.err)
        ELSE TensorArray_init(FromND(result.arr))

\* TensorArray.copy: self._ndarray.copy() is a new buffer with the same content
TensorArray_copy(nd) == TensorArray_init(FromND(nd))

\* TensorArray.view
TensorArray_view(nd) == TensorArray_init(FromND(nd))

\* TensorArray._concat_same_type
TensorArray_concat_same_type(nds) ==
    LET result == np_concatenate(nds)
    IN  IF result.err # NoErr THEN Fail(result.err)
        ELSE TensorArray_init(FromND(result.arr))

\* TensorArray._from_sequence
TensorArray_from_sequence(scalars) == TensorArray_init(scalars)

isna_any(nd) ==
    [i \in 1..nd.shape[1] |-> \E c \in 1..Len(nd.data) : np_isnan(nd.dtype, nd.data[c])]

\* TensorArray.isna: np.any of np.isnan over every axis but the first
TensorArray_isna(nd) ==
    [i \in 1..nd.shape[1] |->
        \E c \in 1..Prod(Tail(nd.shape)) : np_isnan(nd.dtype, Row(nd, i - 1).data[c])]

\* ------------------------------------------------------------------ pyarrow types

PaTypes == {"pa.float32", "pa.float64", "pa.int32"}

\* pa.from_numpy_dtype
pa_from_numpy_dtype(dt) ==
    CASE dt = "float32" -> "pa.float32"
      [] dt = "float64" -> "pa.float64"
      [] OTHER -> "pa.int32"

\* DataType.to_pandas_dtype
pa_to_pandas_dtype(t) ==
    CASE t = "pa.float32" -> "float32"
      [] t = "pa.float64" -> "float64"
      [] OTHER -> "int32"

\* DataType.bit_width
pa_bit_width(t) == IF t = "pa.float64" THEN 64 ELSE 32

\* str(DataType): pyarrow prints float32 as "float" and float64 as "double"
pa_str(t) ==
    CASE t = "pa.float32" -> "float"
      [] t = "pa.float64" -> "double"
      [] OTHER -> "int32"

\* a variant that reads "float" as Python's float, a double
pa_type_for_alias_pyfloat(name) ==
    CASE name \in {"f4", "float32"} -> "pa.float32"
      [] name \in {"f8", "float", "double", "float64"} -> "pa.float64"
      [] name \in {"i4", "int32"} -> "pa.int32"
      [] OTHER -> "pa.unknown"

\* pa.type_for_alias
pa_type_for_alias(name) ==
    CASE name \in {"f4", "float", "float32"} -> "pa.float32"
      [] name \in {"f8", "double", "float64"} -> "pa.float64"
      [] name \in {"i4", "int32"} -> "pa.int32"
      [] OTHER -> "pa.unknown"

\* a Python tuple and a Python list of ints
PyTuple(items) == [py |-> "tuple", items |-> items]
PyList(items) == [py |-> "list", items |-> items]

\* ArrowTensorType.__init__: shape and subtype are kept as given, the
\* storage type is pa.binary(size * bit_width // 8)
ArrowTensorType_init(shape, subtype) ==
    [shape |-> shape, subtype |-> subtype,
     byte_width |-> (Prod(shape.items) * pa_bit_width(subtype)) \div 8]

\* ArrowTensorType.shape
ArrowTensorType_shape(t) == PyTuple(t.shape.items)

\* ArrowTensorType.subtype
ArrowTensorType_subtype(t) == t.subtype

\* ArrowTensorType.__arrow_ext_serialize__: the JSON object
\* {"shape": [...], "subtype": "<name>"}; json writes a tuple as an array
arrow_ext_serialize(t) ==
    [shape |-> ArrowTensorType_shape(t).items, subtype |-> pa_str(ArrowTensorType_subtype(t))]

\* ArrowTensorType.__arrow_ext_deserialize__: json reads an array as a list
arrow_ext_deserialize(serialized) ==
    ArrowTensorType_init(PyList(serialized.shape), pa_type_for_alias(serialized.subtype))

\* ------------------------------------------------------------------ arrow encode / decode

\* ndarray.tobytes: the bytes of the items in row-major order
tobytes(a) == Flatten(a.data)

\* np.frombuffer(bytes, dtype): the bytes read as items of the dtype
np_frombuffer(bytes, dt) ==
    IF Len(bytes) % itemsize(dt) # 0
    THEN [err |-> Err("ValueError", "buffer size must be a multiple of element size"),
          arr |-> NoArr]
    ELSE [err |-> NoErr,
          arr |-> [shape |-> <<Len(bytes) \div itemsize(dt)>>, dtype |-> dt,
                   data |-> [j \in 1..(Len(bytes) \div itemsize(dt)) |->
                               SubSeq(bytes, (j - 1) * itemsize(dt) + 1, j * itemsize(dt))]]]

\* ndarray.reshape
np_reshape(a, shape) ==
    IF Prod(shape) # Len(a.data)
    THEN [err |-> Err("ValueError", "cannot reshape array"), arr |-> NoArr]
    ELSE [err |-> NoErr, arr |-> [a EXCEPT !.shape = shape]]

\* TensorArray.__arrow_array__: one fixed-size binary cell per row
TensorArray_arrow_array(nd) ==
    LET subtype == pa_from_numpy_dtype(nd.dtype)
        arrow_type == ArrowTensorType_init(PyTuple(Tail(nd.shape)), subtype)
        cells == [i \in 1..TensorArray_len(nd) |->
                    tobytes(TensorArray_getitem(nd, KeyInt(i - 1)).nd)]
    IN  IF \E i \in 1..Len(cells) : Len(cells[i]) # arrow_type.byte_width
        THEN [kind |-> "Array", err |-> Err("ArrowInvalid", "got bytestring of wrong length"),
              type |-> arrow_type, storage |-> <<>>, chunks |-> <<>>]
        ELSE [kind |-> "Array", err |-> NoErr,
              type |-> arrow_type, storage |-> cells, chunks |-> <<>>]

\* the tensor read from one storage cell of a chunk
CellTensor(arr, cell) ==
    LET shape == ArrowTensorType_shape(arr.type).items
        subtype == ArrowTensorType_subtype(arr.type)
        flat == np_frombuffer(cell, pa_to_pandas_dtype(subtype))
    IN  IF flat.err # NoErr THEN flat ELSE np_reshape(flat.arr, shape)

\* TensorDtype.__from_arrow__
TensorDtype_from_arrow(array) ==
    LET chunks == IF array.kind = "Array" THEN <<array>> ELSE array.chunks
        tensors == Flatten([c \in 1..Len(chunks) |->
                      [i \in 1..Len(chunks[c].storage) |->
                          CellTensor(chunks[c], chunks[c].storage[i])]])
        bad == {i \in 1..Len(tensors) : tensors[i].err # NoErr}
        stacked == np_stack([i \in 1..Len(tensors) |-> tensors[i].arr])
    IN  IF bad # {} THEN Fail(tensors[CHOOSE i \in bad : \A j \in bad : i <= j].err)
        ELSE IF stacked.err # NoErr THEN Fail(stacked.err)
        ELSE TensorArray_init(FromND(stacked.arr))

\* ------------------------------------------------------------------ ExtensionBlock.where

\* the shape s with leading 1s up to n dimensions
PadShape(s, n) == [j \in 1..n |-> IF j <= n - Len(s) THEN 1 ELSE s[j - (n - Len(s))]]

\* numpy broadcasting of two shapes against each other
Compatible(s1, s2) ==
    LET n == Max(Len(s1), Len(s2))
    IN  \A j \in 1..n :
           \/ PadShape(s1, n)[j] = PadShape(s2, n)[j]
           \/ PadShape(s1, n)[j] = 1
           \/ PadShape(s2, n)[j] = 1

BroadcastShape(s1, s2) ==
    LET n == Max(Len(s1), Len(s2))
    IN  [j \in 1..n |-> IF PadShape(s1, n)[j] = 1 THEN PadShape(s2, n)[j]
                        ELSE PadShape(s1, n)[j]]

\* np.where(cond, x, y): the three are broadcast against each other and
\* each item is taken from x where cond holds and from y elsewhere
np_where(cond, x, y) ==
    LET ok == /\ Compatible(cond.shape, x.shape)
              /\ Compatible(BroadcastShape(cond.shape, x.shape), y.shape)
        S == BroadcastShape(BroadcastShape(cond.shape, x.shape), y.shape)
    IN  IF ~ok
        THEN [err |-> Err("ValueError", "operands could not be broadcast together"),
              arr |-> NoArr]
        ELSE [err |-> NoErr,
              arr |-> [shape |-> S, dtype |-> x.dtype,
                       data |-> [k \in 1..Prod(S) |->
                                   IF BGet(cond, S, k - 1)
                                   THEN BGet(x, S, k - 1)
                                   ELSE astype(BGet(y, S, k - 1), y.dtype, x.dtype)]]]

\* the replacement: a generic missing value (np.nan, None), an ndarray, or
\* a TensorArray
OtherMissing == [kind |-> "missing", arr |-> NoArr]
OtherNd(a) == [kind |-> "ndarray", arr |-> a]
OtherTA(a) == [kind |-> "TensorArray", arr |-> a]

\* TensorDtype.na_value: np.nan, a Python float
na_value == [kind |-> "scalar", arr |-> [shape |-> <<>>, dtype |-> "float64",
                                         data |-> <<nan("float64")>>]]

\* a boolean sequence as a 1-d ndarray
BoolArray(b) == [shape |-> <<Len(b)>>, dtype |-> "bool", data |-> b]

\* where(self, other, cond) of the patched ExtensionBlock; values is the
\* buffer of self.values and supported tells whether the storage takes
\* item assignment (TensorArray does) or raises TypeError
where(values, other, cond, supported) ==
    LET asserted == other.kind = "ndarray" /\ ndim(other.arr) = 2
        o1 == IF asserted
              THEN [other EXCEPT !.arr.shape = <<other.arr.shape[1]>>]
              ELSE other
        o2 == IF o1.kind = "missing" THEN na_value ELSE o1
        result == TensorArray_copy(values).nd
        icond == [i \in 1..Len(cond) |-> ~cond[i]]
        set_other == o2
        st == IF supported
              THEN ndarray_setitem(result, KeyMask(icond), set_other.arr)
              ELSE [err |-> Err("TypeError", "item assignment not supported"), arr |-> result]
        w == np_where(BoolArray(cond), values, o2.arr)
    IN  IF asserted /\ other.arr.shape[2] # 1
        THEN Fail(Err("AssertionError", ""))
        ELSE IF st.err = NoErr
        THEN [err |-> NoErr, nd |-> st.arr, shared |-> FALSE]
        ELSE IF st.err.cls \in {"NotImplementedError", "TypeError"}
        THEN IF w.err # NoErr THEN Fail(w.err)
             ELSE TensorArray_from_sequence(FromND(w.arr))
        ELSE Fail(st.err)

\* ------------------------------------------------------------------ inputs

\* an array of the given shape with every item the number n
Fill(shape, dt, n) ==
    [shape |-> shape, dtype |-> dt, data |-> [c \in 1..Prod(shape) |-> num(dt, n)]]

\* all sequences over S of length at most n
SeqsUpTo(S, n) == UNION {[1..k -> S] : k \in 0..n}

\* element shapes: one or two dimensions of extent 1..MaxDim
ElemShapes ==
    {<<d>> : d \in 1..MaxDim} \cup {<<d, e>> : d \in 1..MaxDim, e \in 1..MaxDim}

\* one tensor of shape es: all 1, all 2, or (floats) 1 with a NaN at the
\* last or at the first place
Tensors(es, dt) ==
    {Fill(es, dt, 1), Fill(es, dt, 2)}
    \cup IF dt \in FloatDtypes
         THEN {[Fill(es, dt, 1) EXCEPT !.data[Prod(es)] = nan(dt)],
               [Fill(es, dt, 2) EXCEPT !.data[1] = nan(dt)]}
         ELSE {}

\* the buffers of valid TensorArrays: up to MaxRows tensors of one shape
\* and dtype, stacked (no rows: the empty buffer of that trailing shape)
Arrays(dts) ==
    UNION {{[shape |-> <<k>> \o es, dtype |-> dt,
             data |-> Flatten([p \in 1..k |-> rows[p].data])] :
               rows \in [1..k -> Tensors(es, dt)]} :
           k \in 0..MaxRows, es \in ElemShapes, dt \in dts}

NoWire == [kind |-> "none"]
NoCall == [op |-> "none", err |-> NoErr]

\* ------------------------------------------------------------------ lifecycle
\* Objects are created, indexed, assigned to, taken from, concatenated,
\* copied and viewed. The elements are float32 tensors of shape (2,).

\* lists handed to TensorArray(...): k tensors of shape (2,), a flat list
\* of k numbers (0-d sub-arrays), the empty list, and a list of two
\* sub-arrays of different shapes
LifeLists ==
    {[p \in 1..k |-> Fill(s, "float32", 1)] : k \in 0..MaxRows, s \in {<<2>>, <<>>}}
    \cup {<<Fill(<<1>>, "float32", 1), Fill(<<2>>, "float32", 1)>>}

\* values assigned: one tensor, or MaxRows tensors (one per row)
LifeValues == {Fill(<<2>>, "float32", 2), Fill(<<MaxRows, 2>>, "float32", 2)}

\* keys assigned to: a row from the front or the end, a row past the end,
\* and the slices from the first row
LifeKeys == {KeyInt(i) : i \in {-1, 0, 1, MaxRows}} \cup {KeySlice(0, k) : k \in 1..MaxRows}

LifeIndices == SeqsUpTo({-2, -1, 0, MaxRows - 1, MaxRows}, 2)

InitLife ==
    /\ heap = <<>>
    /\ arrs = <<>>
    /\ made = <<>>
    /\ wire = NoWire
    /\ out = NoCall

\* the object a call returns: it holds buffer b when __init__ kept the
\* buffer it was given, and a new buffer otherwise
Install(r, b, call) ==
    /\ out' = [call EXCEPT !.err = r.err]
    /\ wire' = wire
    /\ IF r.err # NoErr
       THEN UNCHANGED <<heap, arrs>>
       ELSE IF r.shared /\ b > 0
       THEN /\ arrs' = Append(arrs, b)
            /\ heap' = heap
       ELSE /\ heap' = Append(heap, r.nd)
            /\ arrs' = Append(arrs, Len(heap) + 1)

Objs == 1..Len(arrs)
Buf(i) == heap[arrs[i]]

\* TensorArray(list)
New(data) ==
    /\ Len(arrs) < MaxArrays
    /\ Install(TensorArray_init(FromList(data)), 0,
               [op |-> "init", err |-> NoErr, data |-> data])

\* TensorArray(other)
InitFrom(i) ==
    /\ Len(arrs) < MaxArrays
    /\ Install(TensorArray_init(FromTA(Buf(i))), arrs[i], [op |-> "init_from", err |-> NoErr])

\* other.view()
View(i) ==
    /\ Len(arrs) < MaxArrays
    /\ Install(TensorArray_view(Buf(i)), arrs[i], [op |-> "view", err |-> NoErr])

\* other.copy()
Copy(i) ==
    /\ Len(arrs) < MaxArrays
    /\ Install(TensorArray_copy(Buf(i)), 0, [op |-> "copy", err |-> NoErr])

\* other[0:hi]: the numpy slice is a view of the buffer, which __init__
\* keeps only when it has no rows; a view of no rows shows nothing of the
\* buffer, so it is installed as a buffer of its own
GetSlice(i, hi) ==
    /\ Len(arrs) < MaxArrays
    /\ Install(TensorArray_getitem(Buf(i), KeySlice(0, hi)), 0,
               [op |-> "getitem", err |-> NoErr])

\* other[k]: a bare ndarray, no new TensorArray
GetInt(i, k) ==
    LET r == TensorArray_getitem(Buf(i), KeyInt(k))
    IN  /\ out' = [op |-> "getitem_int", err |-> r.err, res |-> r.nd]
        /\ UNCHANGED <<heap, arrs, wire>>

\* other.take(indices, allow_fill, fill_value=1)
Take(i, indices, allow_fill) ==
    /\ Len(arrs) < MaxArrays
    /\ Install(TensorArray_take(Buf(i), indices, allow_fill, FillScalar(1)), 0,
               [op |-> "take", err |-> NoErr])

\* TensorArray._concat_same_type([a, b])
Concat(i, j) ==
    /\ Len(arrs) < MaxArrays
    /\ TensorArray_len(Buf(i)) + TensorArray_len(Buf(j)) <= MaxRows
    /\ Install(TensorArray_concat_same_type(<<Buf(i), Buf(j)>>), 0,
               [op |-> "concat", err |-> NoErr])

\* TensorArray.__setitem__: whatever numpy leaves in the buffer stays there
SetItem(i, key, value) ==
    LET r == ndarray_setitem(Buf(i), key, value)
    IN  /\ heap' = [heap EXCEPT ![arrs[i]] = r.arr]
        /\ out' = [op |-> "setitem", err |-> r.err]
        /\ UNCHANGED <<arrs, wire>>

Next ==
    \/ \E data \in LifeLists : New(data) /\ UNCHANGED made
    \/ \E i \in Objs : InitFrom(i) /\ UNCHANGED made
    \/ \E i \in Objs : View(i) /\ UNCHANGED made
    \/ \E i \in Objs : Copy(i) /\ UNCHANGED made
    \/ \E i \in Objs, hi \in 1..MaxRows : GetSlice(i, hi) /\ UNCHANGED made
    \/ \E i \in Objs, k \in {-1, 0, MaxRows} : GetInt(i, k) /\ UNCHANGED made
    \/ \E i \in Objs, indices \in LifeIndices, allow_fill \in BOOLEAN :
          Take(i, indices, allow_fill) /\ UNCHANGED made
    \/ \E i \in Objs, j \in Objs : Concat(i, j) /\ UNCHANGED made
    \/ \E i \in Objs, key \in LifeKeys, value \in LifeValues :
          SetItem(i, key, value) /\ UNCHANGED made

Spec == InitLife /\ [][Next]_vars

\* ------------------------------------------------------------------ sharing
\* One array, the objects obtained from it by view, slice, copy and take,
\* and assignments to any of them; made records how each was obtained.

How(via, src) == [via |-> via, src |-> src]

Track(via, i) == made' = IF out'.err = NoErr THEN Append(made, How(via, i)) ELSE made

InitShare ==
    /\ \E k \in 1..MaxRows : heap = <<Fill(<<k, 2>>, "float32", 1)>>
    /\ arrs = <<1>>
    /\ made = <<How("new", 0)>>
    /\ wire = NoWire
    /\ out = NoCall

NextShare ==
    \/ \E i \in Objs : View(i) /\ Track("view", i)
    \/ \E i \in Objs : Copy(i) /\ Track("copy", i)
    \/ \E i \in Objs, hi \in 1..MaxRows : GetSlice(i, hi) /\ Track("slice", i)
    \/ \E i \in Objs, indices \in LifeIndices, allow_fill \in BOOLEAN :
          Take(i, indices, allow_fill) /\ Track("take", i)
    \/ \E i \in Objs, key \in LifeKeys, value \in LifeValues :
          SetItem(i, key, value) /\ UNCHANGED made

SpecShare == InitShare /\ [][NextShare]_vars

\* ------------------------------------------------------------------ claims: lifecycle

FlatScalars(data) == Len(data) > 0 /\ \A p \in 1..Len(data) : data[p].shape = <<>>

\* C9: constructing from a flat sequence of numbers fails with the
\* "at least 2D" ValueError (the RankError), and every TensorArray that
\* exists holds a buffer of at least 2 dimensions.
C9_RankInvariant ==
    /\ \A i \in Objs : ndim(Buf(i)) >= 2
    /\ (out.op = "init" /\ FlatScalars(out.data)) => (out.err = NotTwoD)

\* a flat list was refused while an array obtained earlier exists
C9_Witness ==
    /\ out.op = "init"
    /\ FlatScalars(out.data)
    /\ out.err = NotTwoD
    /\ Len(arrs) > 0

\* objects that view and slice chain together
Linked(i, j) == made[j].via \in {"view", "slice"} /\ made[j].src = i

RECURSIVE Reach(_, _)
Reach(S, n) ==
    IF n = 0 THEN S
    ELSE Reach(S \cup {j \in Objs : \E i \in S : Linked(i, j) \/ Linked(j, i)}, n - 1)

Conn(i, j) == j \in Reach({i}, Len(arrs))

\* what a view or a slice shows is what its source holds
ViewCoherent ==
    \A j \in Objs :
        /\ made[j].via = "view" => Buf(j) = Buf(made[j].src)
        /\ made[j].via = "slice" =>
             Buf(j) = Gather(Buf(made[j].src),
                             [p \in 1..TensorArray_len(Buf(j)) |-> p - 1])

\* a step changes two objects only when views and slices chain them together
Independent ==
    \A i \in Objs, j \in Objs :
        (heap'[arrs[i]] # heap[arrs[i]] /\ heap'[arrs[j]] # heap[arrs[j]]) => Conn(i, j)

\* C10: after any sets, an array obtained by view() or by a slice shows
\* the rows of the array it was obtained from (each sees the other's
\* sets), and a set reaches no array that is only a copy or a take of the
\* one assigned to.
C10_SharingClaim == [][ViewCoherent' /\ Independent]_vars

\* ------------------------------------------------------------------ construction
\* One call of TensorArray._from_sequence on a list of sub-arrays, or of
\* TensorArray(ndarray).

SubArrays == {Fill(es, "float32", n) : es \in ElemShapes \cup {<<>>}, n \in 1..2}

InitCtor ==
    /\ heap = <<>>
    /\ arrs = <<>>
    /\ made = <<>>
    /\ wire = NoWire
    /\ out = NoCall

\* TensorArray._from_sequence(list)
FromSequence(data) ==
    LET r == TensorArray_from_sequence(FromList(data))
    IN  /\ out = NoCall
        /\ out' = [op |-> "from_sequence", err |-> r.err, data |-> data, res |-> r.nd]
        /\ UNCHANGED <<heap, arrs, made, wire>>

\* TensorArray(ndarray)
FromNdarray(a) ==
    LET r == TensorArray_init(FromND(a))
    IN  /\ out = NoCall
        /\ out' = [op |-> "from_ndarray", err |-> r.err, data |-> a, res |-> r.nd]
        /\ UNCHANGED <<heap, arrs, made, wire>>

NextCtor ==
    \/ \E data \in SeqsUpTo(SubArrays, MaxRows) : FromSequence(data)
    \/ \E a \in Arrays({"float32"}) \cup {Fill(<<k>>, "float32", 1) : k \in 0..MaxRows} :
          FromNdarray(a)

SpecCtor == InitCtor /\ [][NextCtor]_vars

Heterogeneous(data) == \E p \in 1..Len(data), q \in 1..Len(data) : data[p].shape # data[q].shape

\* C8: constructing from sub-arrays whose shapes are not all the same
\* fails with the "Incompatible data" ValueError (the ShapeError) and
\* yields no array.
C8_ShapeRejection ==
    (out.op = "from_sequence" /\ Heterogeneous(out.data))
        => (out.err = IncompatibleData /\ out.res = NoArr /\ arrs = <<>>)

\* two sub-arrays of two dimensions that differ in the last extent only
\* were refused
C8_Witness ==
    /\ out.op = "from_sequence"
    /\ out.err = IncompatibleData
    /\ \E p \in 1..Len(out.data), q \in 1..Len(out.data) :
          /\ Len(out.data[p].shape) = 2
          /\ Len(out.data[q].shape) = 2
          /\ out.data[p].shape[1] = out.data[q].shape[1]
          /\ out.data[p].shape[2] # out.data[q].shape[2]

\* ------------------------------------------------------------------ arrow round trip
\* A TensorArray is encoded to a pyarrow extension array and decoded again.

InitArrow ==
    /\ \E a \in Arrays(Dtypes) : heap = <<a>>
    /\ arrs = <<1>>
    /\ made = <<>>
    /\ wire = NoWire
    /\ out = NoCall

\* pa.array(x): x.__arrow_array__()
ArrowArray ==
    /\ wire = NoWire
    /\ wire' = TensorArray_arrow_array(Buf(1))
    /\ UNCHANGED <<heap, arrs, made, out>>

\* TensorDtype().__from_arrow__(the encoded array)
FromArrow ==
    /\ wire.kind = "Array"
    /\ wire.err = NoErr
    /\ out = NoCall
    /\ LET r == TensorDtype_from_arrow(wire)
       IN  out' = [op |-> "from_arrow", err |-> r.err, res |-> r.nd]
    /\ UNCHANGED <<heap, arrs, made, wire>>

NextArrow == ArrowArray \/ FromArrow

SpecArrow == InitArrow /\ [][NextArrow]_vars

\* C1: decoding the encoding of a TensorArray succeeds and gives a buffer
\* of the same shape, the same dtype and the same bytes, for arrays of no
\* row, one row and several rows.
C1_RoundTrip ==
    (out.op = "from_arrow")
        => /\ out.err = NoErr
           /\ out.res.shape = Buf(1).shape
           /\ out.res.dtype = Buf(1).dtype
           /\ tobytes(out.res) = tobytes(Buf(1))

\* ------------------------------------------------------------------ extension type metadata
\* An ArrowTensorType is serialized and the blob deserialized.

TypeShapes ==
    {<<d>> : d \in 1..MaxTypeDim} \cup {<<d, e>> : d \in 1..MaxTypeDim, e \in 1..MaxTypeDim}

InitType ==
    /\ heap = <<>>
    /\ arrs = <<>>
    /\ made = <<>>
    /\ wire = NoWire
    /\ out = NoCall

\* t.__arrow_ext_serialize__()
ExtSerialize(t) ==
    /\ wire = NoWire
    /\ wire' = [kind |-> "blob", t |-> t, blob |-> arrow_ext_serialize(t)]
    /\ UNCHANGED <<heap, arrs, made, out>>

\* ArrowTensorType.__arrow_ext_deserialize__(storage_type, blob)
ExtDeserialize ==
    /\ wire.kind = "blob"
    /\ out = NoCall
    /\ out' = [op |-> "deserialize", err |-> NoErr, res |-> arrow_ext_deserialize(wire.blob)]
    /\ UNCHANGED <<heap, arrs, made, wire>>

NextType ==
    \/ \E shape \in TypeShapes, subtype \in PaTypes :
          \/ ExtSerialize(ArrowTensorType_init(PyTuple(shape), subtype))
          \/ ExtSerialize(ArrowTensorType_init(PyList(shape), subtype))
    \/ ExtDeserialize

SpecType == InitType /\ [][NextType]_vars

\* C2: the type deserialized from the blob of t has the shape and the
\* subtype of t, and a storage cell of product(shape) * bit_width / 8
\* bytes: 48 for shape (3, 4) and float32.
C2_MetadataRoundTrip ==
    (out.op = "deserialize")
        => /\ ArrowTensorType_shape(out.res) = ArrowTensorType_shape(wire.t)
           /\ ArrowTensorType_subtype(out.res) = ArrowTensorType_subtype(wire.t)
           /\ out.res.byte_width
                = (Prod(wire.t.shape.items) * pa_bit_width(wire.t.subtype)) \div 8
           /\ (wire.t.shape.items = <<3, 4>> /\ wire.t.subtype = "pa.float32")
                 => out.res.byte_width = 48

\* the type of shape (3, 4) and subtype float32 went through the blob
C2_Witness ==
    /\ out.op = "deserialize"
    /\ wire.t.shape = PyTuple(<<3, 4>>)
    /\ wire.t.subtype = "pa.float32"
    /\ out.res.byte_width = 48

\* ------------------------------------------------------------------ isna
\* One call of isna on an array.

InitIsna == InitArrow

\* x.isna()
IsNa ==
    /\ out = NoCall
    /\ out' = [op |-> "isna", err |-> NoErr, res |-> TensorArray_isna(Buf(1))]
    /\ UNCHANGED <<heap, arrs, made, wire>>

NextIsna == IsNa

SpecIsna == InitIsna /\ [][NextIsna]_vars

\* the items of row i (1-based) of a buffer
RowItems(a, i) == Row(a, i - 1).data

\* C7: isna gives one boolean per row, true exactly for the rows that
\* hold a NaN somewhere in their tensor, whatever the other rows hold.
C7_IsnaPerRow ==
    (out.op = "isna")
        => /\ Len(out.res) = TensorArray_len(Buf(1))
           /\ \A i \in 1..TensorArray_len(Buf(1)) :
                 out.res[i] <=>
                    /\ Buf(1).dtype \in FloatDtypes
                    /\ \E c \in 1..Len(RowItems(Buf(1), i)) :
                          RowItems(Buf(1), i)[c] = nan(Buf(1).dtype)

\* an array with a row that holds a NaN (not in every place) and a row
\* that holds none
C7_Witness ==
    /\ out.op = "isna"
    /\ \E i \in 1..Len(out.res), j \in 1..Len(out.res) :
          /\ out.res[i]
          /\ ~out.res[j]
          /\ \E c \in 1..Len(RowItems(Buf(1), i)) : RowItems(Buf(1), i)[c] # nan(Buf(1).dtype)

\* ------------------------------------------------------------------ take
\* One call of take on an array.

TakeIndices == SeqsUpTo((-MaxRows - 1)..MaxRows, 2)

\* fill values: none given, the number 2, a tensor of 2s of the element shape
TakeFills(a) == {FillNone, FillScalar(2), FillTensor(Fill(Tail(a.shape), a.dtype, 2))}

InitTake ==
    /\ \E a \in Arrays({"float32", "int32"}) : heap = <<a>>
    /\ arrs = <<1>>
    /\ made = <<>>
    /\ wire = NoWire
    /\ out = NoCall

\* x.take(indices, allow_fill, fill_value)
TakeCall(indices, allow_fill, fill_value) ==
    LET r == TensorArray_take(Buf(1), indices, allow_fill, fill_value)
    IN  /\ out = NoCall
        /\ out' = [op |-> "take", err |-> r.err, res |-> r.nd, indices |-> indices,
                   allow_fill |-> allow_fill, fill_value |-> fill_value]
        /\ UNCHANGED <<heap, arrs, made, wire>>

NextTake ==
    \E indices \in TakeIndices, allow_fill \in BOOLEAN, fill_value \in TakeFills(Buf(1)) :
        TakeCall(indices, allow_fill, fill_value)

SpecTake == InitTake /\ [][NextTake]_vars

\* the items a row of the result must hold to be row r of a, as numbers
SameRow(res, p, a, r) ==
    RowItems(res, p) = [c \in 1..Prod(Tail(a.shape)) |->
                          astype(Row(a, r).data[c], a.dtype, res.dtype)]

\* the items a row of the result must hold to equal the fill value
FillRow(res, p, a, fill) ==
    CASE fill.kind = "None" ->
           \A c \in 1..Len(RowItems(res, p)) : RowItems(res, p)[c] = nan(res.dtype)
      [] fill.kind = "scalar" ->
           \A c \in 1..Len(RowItems(res, p)) : RowItems(res, p)[c] = num(res.dtype, fill.v)
      [] OTHER -> RowItems(res, p) = fill.arr.data

\* C3: take gives one row per index, in order. Without fill an index in
\* [-N, N-1] selects row i mod N and any other fails with IndexError; with
\* fill an index in [0, N-1] selects that row, -1 gives a row equal to
\* fill_value (NaN when none is given) and any other negative index fails
\* with ValueError.
C3_TakeSemantics ==
    (out.op = "take") =>
        LET a == Buf(1)
            n == TensorArray_len(a)
            idx == out.indices
            I == 1..Len(idx)
        IN  IF ~out.allow_fill
            THEN IF \A p \in I : idx[p] >= -n /\ idx[p] <= n - 1
                 THEN /\ out.err = NoErr
                      /\ TensorArray_len(out.res) = Len(idx)
                      /\ \A p \in I : SameRow(out.res, p, a, idx[p] % n)
                 ELSE out.err.cls = "IndexError"
            ELSE IF \E p \in I : idx[p] < -1
                 THEN out.err.cls = "ValueError"
                 ELSE (\A p \in I : idx[p] <= n - 1)
                         => /\ out.err = NoErr
                            /\ TensorArray_len(out.res) = Len(idx)
                            /\ \A p \in I :
                                  IF idx[p] = -1
                                  THEN FillRow(out.res, p, a, out.fill_value)
                                  ELSE SameRow(out.res, p, a, idx[p])

\* ------------------------------------------------------------------ where
\* One call of where on a block that holds a float32 array.

\* one tensor per row: 2s in the odd rows, 0s in the even ones
PerRow(a) ==
    [a EXCEPT !.data = [k \in 1..Len(a.data) |->
        num(a.dtype, IF ((k - 1) \div Prod(Tail(a.shape))) % 2 = 0 THEN 2 ELSE 0)]]

WhereOthers(a) ==
    {OtherMissing, OtherNd(Fill(Tail(a.shape), a.dtype, 2)), OtherNd(PerRow(a)),
     OtherTA(PerRow(a))}

InitWhere ==
    /\ \E a \in Arrays({"float32"}) : heap = <<a>>
    /\ arrs = <<1>>
    /\ made = <<>>
    /\ wire = NoWire
    /\ out = NoCall

\* block.where(other, cond)
WhereCall(other, cond, supported) ==
    LET r == where(Buf(1), other, cond, supported)
    IN  /\ out = NoCall
        /\ out' = [op |-> "where", err |-> r.err, res |-> r.nd, self |-> Buf(1),
                   other |-> other, cond |-> cond, supported |-> supported]
        /\ UNCHANGED <<heap, arrs, made, wire>>

NextWhere ==
    \E other \in WhereOthers(Buf(1)), cond \in [1..TensorArray_len(Buf(1)) -> BOOLEAN],
       supported \in BOOLEAN :
        WhereCall(other, cond, supported)

SpecWhere == InitWhere /\ [][NextWhere]_vars

\* the items of the replacement for row i of a
OtherRow(other, a, i) ==
    CASE other.kind = "missing" -> [c \in 1..Prod(Tail(a.shape)) |-> nan(a.dtype)]
      [] other.arr.shape = Tail(a.shape) -> other.arr.data
      [] OTHER -> RowItems(other.arr, i)

\* C4: where gives N rows, row i that of self where cond[i] holds and the
\* replacement elsewhere (the one tensor, the i-th of N tensors, or NaN for
\* a generic missing value), and leaves self as it was.
C4_WhereSemantics ==
    (out.op = "where" /\ out.supported) =>
        /\ out.err = NoErr
        /\ out.res.shape = out.self.shape
        /\ \A i \in 1..TensorArray_len(out.self) :
              RowItems(out.res, i) = IF out.cond[i] THEN RowItems(out.self, i)
                                     ELSE OtherRow(out.other, out.self, i)
        /\ Buf(1) = out.self

\* C5: when the storage refuses item assignment, where does not fail for
\* it and gives what the assignment gives when it is supported.
C5_FallbackSame ==
    (out.op = "where" /\ ~out.supported) =>
        LET v == where(out.self, out.other, out.cond, TRUE)
        IN  v.err = NoErr => (out.err = NoErr /\ out.res = v.nd)

====
